---- MODULE Spec2Model ----
(***************************************************************************)
(* A model of faderport.py: the control registry and its lookups, the      *)
(* glyph table, the FaderPort controller (open, close, the fader property, *)
(* the inbound message callback) and the lighting routines.                *)
(*                                                                         *)
(* Python strings are sequences of one-character strings, so that          *)
(* str.title() and str.upper() are computed character by character.        *)
(* A Python call that may raise yields a record whose field "raised" names *)
(* the exception ("none" when it returns).                                 *)
(***************************************************************************)
EXTENDS Integers, Sequences, FiniteSets, TLC

VARIABLES
    inport,     \* self.inport:  "None", "open" or "closed"
    outport,    \* self.outport: "None", "open" or "closed"
    callback,   \* self.inport.callback is self._message_callback
    fader,      \* self._fader
    lit,        \* the notes whose light the device shows, as the messages sent left it
    trace,      \* what the caller's current (or last) operation did, in order
    pc,         \* the caller's position inside its current operation, "idle" between operations
    cur,        \* the caller's current (or last) operation, its arguments and locals
    cb,         \* the transport's callback context: its position and the message it handles
    hooks,      \* the hook invocations of the session, in order
    wrote,      \* <<v>>: the last fader write's argument, while no inbound pitchwheel replaced it
    got,        \* <<x>>: what the last read of the fader property returned
    nops,       \* operations the caller has started
    nmsgs,      \* inbound messages delivered
    query,      \* the last registry lookup
    answer      \* and its result

vars == <<inport, outport, callback, fader, lit, trace, pc, cur,
          cb, hooks, wrote, got, nops, nmsgs, query, answer>>

----------------------------------------------------------------------------
(* Characters and the str methods the module uses.                         *)

Lowers == <<"a", "b", "c", "d", "e", "f", "g", "h", "i", "j", "k", "l", "m", "n", "o", "p", "q", "r", "s", "t", "u", "v", "w", "x", "y", "z">>

Uppers == <<"A", "B", "C", "D", "E", "F", "G", "H", "I", "J", "K", "L", "M", "N", "O", "P", "Q", "R", "S", "T", "U", "V", "W", "X", "Y", "Z">>

IsLower(ch) == \E i \in DOMAIN Lowers : Lowers[i] = ch

IsUpper(ch) == \E i \in DOMAIN Uppers : Uppers[i] = ch

\* unicode "cased": the character has an upper or a lower case form
IsCased(ch) == IsLower(ch) \/ IsUpper(ch)

ChUpper(ch) == IF IsLower(ch) THEN Uppers[CHOOSE i \in DOMAIN Lowers : Lowers[i] = ch] ELSE ch

ChLower(ch) == IF IsUpper(ch) THEN Lowers[CHOOSE i \in DOMAIN Uppers : Uppers[i] = ch] ELSE ch

\* str.upper()
StrUpper(s) == [i \in 1..Len(s) |-> ChUpper(s[i])]

\* str.lower()
StrLower(s) == [i \in 1..Len(s) |-> ChLower(s[i])]

\* str.title(): a cased character is upper-cased when the character before it is
\* not cased (or there is none) and lower-cased otherwise
StrTitle(s) ==
    [i \in 1..Len(s) |->
        IF i > 1 /\ IsCased(s[i - 1]) THEN ChLower(s[i]) ELSE ChUpper(s[i])]

----------------------------------------------------------------------------
(* The registry.                                                           *)

BUTTONS ==
    << [name |-> <<"S", "o", "l", "o">>, press |-> 8],
       [name |-> <<"M", "u", "t", "e">>, press |-> 16],
       [name |-> <<"A", "r", "m">>, press |-> 0],
       [name |-> <<"S", "h", "i", "f", "t">>, press |-> 70],
       [name |-> <<"B", "y", "p", "a", "s", "s">>, press |-> 3],
       [name |-> <<"T", "o", "u", "c", "h">>, press |-> 77],
       [name |-> <<"W", "r", "i", "t", "e">>, press |-> 75],
       [name |-> <<"R", "e", "a", "d">>, press |-> 74],
       [name |-> <<"P", "r", "e", "v">>, press |-> 46],
       [name |-> <<"K", "n", "o", "b">>, press |-> 32],
       [name |-> <<"N", "e", "x", "t">>, press |-> 47],
       [name |-> <<"L", "i", "n", "k">>, press |-> 5],
       [name |-> <<"P", "a", "n">>, press |-> 42],
       [name |-> <<"C", "h", "a", "n", "n", "e", "l">>, press |-> 54],
       [name |-> <<"S", "c", "r", "o", "l", "l">>, press |-> 56],
       [name |-> <<"M", "a", "s", "t", "e", "r">>, press |-> 58],
       [name |-> <<"C", "l", "i", "c", "k">>, press |-> 59],
       [name |-> <<"S", "e", "c", "t", "i", "o", "n">>, press |-> 60],
       [name |-> <<"M", "a", "r", "k", "e", "r">>, press |-> 61],
       [name |-> <<"L", "o", "o", "p">>, press |-> 86],
       [name |-> <<"R", "e", "w", "i", "n", "d">>, press |-> 91],
       [name |-> <<"F", "o", "r", "w", "a", "r", "d">>, press |-> 92],
       [name |-> <<"S", "t", "o", "p">>, press |-> 93],
       [name |-> <<"P", "l", "a", "y">>, press |-> 94],
       [name |-> <<"R", "e", "c", "o", "r", "d">>, press |-> 95],
       [name |-> <<"P", "e", "d", "a", "l">>, press |-> 102] >>

\* None, where a Button is expected
NoButton == [name |-> <<>>, press |-> 0 - 1]

Returned(v) == [raised |-> "none", value |-> v]

Raised(e) == [raised |-> e, value |-> NoButton]

SetMax(S) == CHOOSE m \in S : \A x \in S : x <= m

\* {x.name: x for x in BUTTONS}: a later entry with the same key replaces an earlier one
ButtonFromNameDict ==
    [k \in {BUTTONS[i].name : i \in DOMAIN BUTTONS} |->
        BUTTONS[SetMax({i \in DOMAIN BUTTONS : BUTTONS[i].name = k})]]

\* {x.press: x for x in BUTTONS}
ButtonFromPressDict ==
    [k \in {BUTTONS[i].press : i \in DOMAIN BUTTONS} |->
        BUTTONS[SetMax({i \in DOMAIN BUTTONS : BUTTONS[i].press = k})]]

NameKeyNoTitle(name) == name

\* the key button_from_name looks up
NameKey(name) == StrTitle(name)

\* _button_from_name[name.title()]: a missing key raises KeyError
button_from_name(name) ==
    IF NameKey(name) \in DOMAIN ButtonFromNameDict
    THEN Returned(ButtonFromNameDict[NameKey(name)])
    ELSE Raised("KeyError")

ButtonFromPressIndexed(press) ==
    IF press \in DOMAIN ButtonFromPressDict
    THEN Returned(ButtonFromPressDict[press])
    ELSE Raised("KeyError")

\* _button_from_press.get(press, None)
button_from_press(press) ==
    IF press \in DOMAIN ButtonFromPressDict
    THEN Returned(ButtonFromPressDict[press])
    ELSE Returned(NoButton)

CHARACTERS ==
       (<<"0">> :> <<0, 1, 2, 3, 4, 7, 11, 14, 15, 16, 17, 18>>)
    @@ (<<"1">> :> <<1, 2, 4, 6, 13, 15, 16, 17, 18>>)
    @@ (<<"2">> :> <<1, 2, 4, 7, 10, 12, 15, 16, 17, 18>>)
    @@ (<<"3">> :> <<1, 2, 4, 7, 8, 10, 11, 14, 16, 17>>)
    @@ (<<"4">> :> <<2, 5, 8, 10, 11, 12, 13, 14, 18>>)
    @@ (<<"5">> :> <<1, 2, 4, 7, 8, 13, 15, 16, 17, 18>>)
    @@ (<<"6">> :> <<0, 1, 2, 3, 4, 8, 10, 11, 14, 15, 16, 17, 18>>)
    @@ (<<"7">> :> <<0, 1, 2, 3, 7, 13, 16>>)
    @@ (<<"8">> :> <<0, 1, 2, 3, 5, 6, 12, 13, 15, 16, 17, 18>>)
    @@ (<<"9">> :> <<0, 1, 2, 3, 4, 7, 8, 10, 14, 15, 16, 17, 18>>)
    @@ (<<"A">> :> <<4, 5, 7, 10, 11, 12, 13, 14, 15, 18, 19, 23>>)
    @@ (<<"B">> :> <<4, 5, 6, 7, 10, 12, 13, 14, 15, 18, 20, 21, 22, 23>>)
    @@ (<<"C">> :> <<4, 5, 7, 10, 14, 15, 18, 20, 21, 22>>)
    @@ (<<"D">> :> <<4, 5, 6, 7, 10, 11, 14, 15, 18, 20, 21, 22, 23>>)
    @@ (<<"E">> :> <<4, 5, 6, 7, 13, 14, 15, 20, 21, 22, 23>>)
    @@ (<<"F">> :> <<4, 5, 6, 7, 13, 14, 15, 23>>)

----------------------------------------------------------------------------
(* What a routine does, step by step: the messages it sends on the output  *)
(* port and its timed waits. A routine is the plan of its steps; running a *)
(* plan performs the steps up to the first one that raises.                *)

MIN_PITCHWHEEL == 0 - 8192

MAX_PITCHWHEEL == 8191

Ev(e, a, b) == [ev |-> e, a |-> a, b |-> b]

\* mido.Message('note_on', note=..., velocity=...)
NoteOn(note, velocity) == Ev("note_on", note, velocity)

\* mido.Message('pitchwheel', pitch=...)
Pitchwheel(pitch) == Ev("pitchwheel", pitch, 0)

\* time.sleep(d), d in milliseconds
Sleep(d) == Ev("sleep", d, 0)

\* BUTTONS[i] with i past either end of the list
BadIndex(i) == Ev("IndexError", i, 0)

IsSend(e) == e.ev \in {"note_on", "pitchwheel"}

\* the exception step e raises with the output port in state port, "none" if it passes:
\* None has no send(), a closed port refuses to send, the message constructor
\* refuses a pitch outside the 14 bits, and sleep() refuses a negative length
StepError(e, port) ==
    CASE e.ev = "IndexError" -> "IndexError"
      [] e.ev = "sleep" -> IF e.a < 0 THEN "ValueError" ELSE "none"
      [] e.ev = "pitchwheel" /\ (e.a < MIN_PITCHWHEEL \/ e.a > MAX_PITCHWHEEL) -> "ValueError"
      [] IsSend(e) /\ port = "None" -> "AttributeError"
      [] IsSend(e) /\ port = "closed" -> "ValueError"
      [] OTHER -> "none"

SetMin(S) == CHOOSE m \in S : \A x \in S : m <= x

\* the steps of plan performed, and the exception that ended it
Run(plan, port) ==
    LET bad == {i \in 1..Len(plan) : StepError(plan[i], port) # "none"}
    IN  IF bad = {}
        THEN [done |-> plan, raised |-> "none"]
        ELSE [done |-> SubSeq(plan, 1, SetMin(bad) - 1),
              raised |-> StepError(plan[SetMin(bad)], port)]

\* the device after the steps es: a note-on with velocity 0 puts the note's light out,
\* any other lights it, and the last message for a note decides
DeviceAll(l, es) ==
    LET at(n) == {i \in 1..Len(es) : es[i].ev = "note_on" /\ es[i].a = n}
        notes == {es[i].a : i \in {j \in 1..Len(es) : es[j].ev = "note_on"}}
    IN  (l \ notes) \cup {n \in notes : es[SetMax(at(n))].b # 0}

RECURSIVE Concat(_)
Concat(ss) == IF Len(ss) = 0 THEN <<>> ELSE Head(ss) \o Concat(Tail(ss))

\* for i in range(n): plan
RECURSIVE Repeat(_, _)
Repeat(plan, n) == IF n <= 0 THEN <<>> ELSE plan \o Repeat(plan, n - 1)

Reversed(s) == [i \in 1..Len(s) |-> s[Len(s) + 1 - i]]

----------------------------------------------------------------------------
(* The lighting routines.                                                  *)

light_on(button) == <<NoteOn(button.press, 127)>>

light_off(button) == <<NoteOn(button.press, 0)>>

all_off == Concat([i \in 1..Len(BUTTONS) |-> light_off(BUTTONS[i])])

all_on == Concat([i \in 1..Len(BUTTONS) |-> light_on(BUTTONS[i])])

snake(duration) ==
       Concat([i \in 1..Len(BUTTONS) |-> light_on(BUTTONS[i]) \o <<Sleep(duration)>>])
    \o Concat([i \in 1..Len(BUTTONS) |->
                  light_off(Reversed(BUTTONS)[i]) \o <<Sleep(duration)>>])

BlinkOffThenOn(interval, n) ==
    Repeat(all_off \o <<Sleep(interval \div 2)>> \o all_on \o <<Sleep(interval \div 2)>>, n)

blink(interval, n) ==
    Repeat(all_on \o <<Sleep(interval \div 2)>> \o all_off \o <<Sleep(interval \div 2)>>, n)

\* BUTTONS[i], i counted from 0, a negative i from the end
Subscript(i) ==
    IF 0 <= i /\ i < Len(BUTTONS) THEN light_on(BUTTONS[i + 1])
    ELSE IF 0 - Len(BUTTONS) <= i /\ i < 0 THEN light_on(BUTTONS[Len(BUTTONS) + i + 1])
    ELSE <<BadIndex(i)>>

GlyphKeyNoUpper(c) == c

\* the key char_on looks up
GlyphKey(c) == StrUpper(c)

CharOnCleared(c) ==
    all_off \o (IF GlyphKey(c) \in DOMAIN CHARACTERS
                THEN Concat([k \in 1..Len(CHARACTERS[GlyphKey(c)]) |->
                                Subscript(CHARACTERS[GlyphKey(c)][k])])
                ELSE <<>>)

\* if c.upper() in CHARACTERS: for i in CHARACTERS[c.upper()]: self.light_on(BUTTONS[i])
char_on(c) ==
    IF GlyphKey(c) \in DOMAIN CHARACTERS
    THEN Concat([k \in 1..Len(CHARACTERS[GlyphKey(c)]) |->
                    Subscript(CHARACTERS[GlyphKey(c)][k])])
    ELSE <<>>

CountdownUp == <<"0", "1", "2", "3", "4", "5", "6", "7", "8", "9">>

\* '9876543210'
COUNTDOWN == <<"9", "8", "7", "6", "5", "4", "3", "2", "1", "0">>

\* one digit's turn in countdown: the glyph, then its hold
countdown_light(c) == char_on(<<c>>)

\* and the clearing that follows
countdown_clear(interval) ==
       <<Sleep((interval * 66667) \div 100000)>> \o all_off
    \o <<Sleep((interval * 33333) \div 100000)>>

\* the chase sequence
ChaseNames ==
    << <<"S", "o", "l", "o">>, <<"M", "u", "t", "e">>, <<"A", "r", "m">>,
       <<"S", "h", "i", "f", "t">>, <<"R", "e", "a", "d">>,
       <<"S", "c", "r", "o", "l", "l">>, <<"M", "a", "r", "k", "e", "r">>,
       <<"S", "e", "c", "t", "i", "o", "n">>, <<"C", "l", "i", "c", "k">>,
       <<"M", "a", "s", "t", "e", "r">>, <<"L", "i", "n", "k">>,
       <<"B", "y", "p", "a", "s", "s">> >>

seq == [i \in 1..Len(ChaseNames) |-> button_from_name(ChaseNames[i]).value]

NumLightsClamped(num_lights) ==
    IF num_lights < 1 THEN 1 ELSE IF num_lights > 4 THEN 4 ELSE num_lights

\* num_lights if num_lights in [1, 2, 3, 4] else 2
NumLights(num_lights) == IF num_lights \in {1, 2, 3, 4} THEN num_lights ELSE 2

\* consume(it, n) on a cycle over seq: the iterator's position, from 0
consume(it, n) == (it + n) % Len(seq)

ChaseCursorsNoAdvance(num_lights) == [j \in 1..num_lights |-> 0]

\* the cursors after the pre-advance: cursor i (from 0) stands at i * (len(seq) // num_lights)
ChaseCursors(num_lights) ==
    [j \in 1..num_lights |->
        IF j - 1 # 0 THEN consume(0, (j - 1) * (Len(seq) \div num_lights)) ELSE 0]

\* for it in its: button = next(it); self.light_on(button)
chase_light(its) == Concat([j \in 1..Len(its) |-> light_on(seq[its[j] + 1])])

ChaseNextStay(its) == its

\* each cursor after its next()
chase_next(its) == [j \in 1..Len(its) |-> consume(its[j], 1)]

\* time.sleep(duration); self.all_off()
chase_clear(duration) == <<Sleep(duration)>> \o all_off

----------------------------------------------------------------------------
(* Bounds.                                                                 *)

\* operations the caller starts in one session
MaxOps == 3

\* inbound messages the transport delivers in one session
MaxMsgs == 1

\* inbound messages the transport delivers where the inbound side is looked at
MaxInbound == 2

\* the longest chase, in ticks: one more than the chase sequence is long
MaxTicks == 13

\* the most cycles of a blink
MaxBlinks == 2

----------------------------------------------------------------------------
(* The caller's context.                                                   *)

\* the frame of an operation: its name, its arguments and its locals
NoOp ==
    [op |-> "none", raised |-> "none", pre |-> {},
     v |-> 0, c |-> <<>>, button |-> 0, d |-> 0, n |-> 0, num_lights |-> 0, ticks |-> 0,
     x |-> 0, its |-> <<>>, number |-> 0, nin |-> 0, nout |-> 0,
     iname |-> <<>>, oname |-> <<>>]

Mark(e) == Ev(e, 0, 0)

callerFrame == <<inport, outport, callback, fader, cb, hooks,
                 wrote, got, nmsgs, query, answer>>

\* a routine that runs from its call to its return in one step
CallerRun(op, plan, frame) ==
    /\ pc = "idle"
    /\ nops < MaxOps
    /\ LET r == Run(plan, outport)
       IN  /\ lit' = DeviceAll(lit, r.done)
           /\ trace' = r.done
           /\ cur' = [frame EXCEPT !.op = op, !.pre = lit, !.raised = r.raised]
    /\ pc' = "idle"
    /\ nops' = nops + 1
    /\ UNCHANGED callerFrame

\* one phase of a routine that is followed phase by phase: the routine goes on at
\* next when the phase passes and ends where it raises
CallerPhase(plan, frame, next) ==
    LET r == Run(plan, outport)
    IN  /\ lit' = DeviceAll(lit, r.done)
        /\ trace' = trace \o r.done
        /\ cur' = [frame EXCEPT !.raised = r.raised]
        /\ pc' = IF r.raised = "none" THEN next ELSE "idle"

LightOn(b) == CallerRun("light_on", light_on(b), [NoOp EXCEPT !.button = b.press])

LightOff(b) == CallerRun("light_off", light_off(b), [NoOp EXCEPT !.button = b.press])

AllOn == CallerRun("all_on", all_on, NoOp)

AllOff == CallerRun("all_off", all_off, NoOp)

Snake(duration) == CallerRun("snake", snake(duration), [NoOp EXCEPT !.d = duration])

Blink(interval, n) ==
    CallerRun("blink", blink(interval, n), [NoOp EXCEPT !.d = interval, !.n = n])

CharOn(c) == CallerRun("char_on", char_on(c), [NoOp EXCEPT !.c = c])

\* countdown, up to its loop
Countdown(interval) ==
    /\ pc = "idle"
    /\ nops < MaxOps
    /\ nops' = nops + 1
    /\ trace' = <<>>
    /\ cur' = [NoOp EXCEPT !.op = "countdown", !.pre = lit, !.d = interval]
    /\ pc' = "countdown_light"
    /\ UNCHANGED lit
    /\ UNCHANGED callerFrame

\* one digit: the digit at position x (from 0) of '9876543210' is lit ...
CountdownLight ==
    /\ pc = "countdown_light"
    /\ CallerPhase(countdown_light(COUNTDOWN[cur.x + 1]), cur, "countdown_hold")
    /\ UNCHANGED nops
    /\ UNCHANGED callerFrame

\* ... then held and cleared
CountdownClear ==
    /\ pc = "countdown_hold"
    /\ CallerPhase(countdown_clear(cur.d), [cur EXCEPT !.x = cur.x + 1],
                   IF cur.x + 1 < Len(COUNTDOWN) THEN "countdown_light" ELSE "idle")
    /\ UNCHANGED nops
    /\ UNCHANGED callerFrame

\* chase, up to its loop
Chase(duration, num_lights, ticks) ==
    /\ pc = "idle"
    /\ nops < MaxOps
    /\ nops' = nops + 1
    /\ trace' = <<>>
    /\ cur' = [NoOp EXCEPT !.op = "chase", !.pre = lit, !.d = duration,
                           !.num_lights = num_lights, !.n = NumLights(num_lights),
                           !.ticks = ticks,
                           !.its = ChaseCursors(NumLights(num_lights))]
    /\ pc' = IF 0 < ticks THEN "chase_tick" ELSE "idle"
    /\ UNCHANGED lit
    /\ UNCHANGED callerFrame

\* one tick: the control under every cursor is lit ...
ChaseLight ==
    /\ pc = "chase_tick"
    /\ CallerPhase(chase_light(cur.its), [cur EXCEPT !.its = chase_next(cur.its)],
                   "chase_hold")
    /\ UNCHANGED nops
    /\ UNCHANGED callerFrame

\* ... held, and the whole device is put out
ChaseClear ==
    /\ pc = "chase_hold"
    /\ CallerPhase(chase_clear(cur.d), [cur EXCEPT !.x = cur.x + 1],
                   IF cur.x + 1 < cur.ticks THEN "chase_tick" ELSE "idle")
    /\ UNCHANGED nops
    /\ UNCHANGED callerFrame

----------------------------------------------------------------------------
(* The fader property.                                                     *)

ClampNoUpper(value) == IF value < 0 - 8192 THEN 0 - 8192 ELSE value

\* -8192 if value < -8192 else 8191 if value > 8191 else value
Clamp(value) ==
    IF value < 0 - 8192 THEN 0 - 8192 ELSE IF value > 8191 THEN 8191 ELSE value

FaderAssignUnclamped(value) ==
    /\ fader' = value
    /\ wrote' = <<value>>
    /\ got' = <<>>

\* the setter's first statement: the cache takes the clamped value
FaderAssign(value) ==
    /\ fader' = Clamp(value)
    /\ wrote' = <<value>>
    /\ got' = <<>>

\* the setter's second statement: a pitchwheel message with the cache as it is now
fader_send == <<Pitchwheel(fader)>>

FaderSet(value) ==
    /\ pc = "idle"
    /\ nops < MaxOps
    /\ nops' = nops + 1
    /\ FaderAssign(value)
    /\ trace' = <<>>
    /\ cur' = [NoOp EXCEPT !.op = "fader", !.pre = lit, !.v = value]
    /\ pc' = "fader_send"
    /\ UNCHANGED <<inport, outport, callback, lit, cb, hooks, nmsgs,
                   query, answer>>

FaderSend ==
    /\ pc = "fader_send"
    /\ CallerPhase(fader_send, cur, "idle")
    /\ UNCHANGED nops
    /\ UNCHANGED callerFrame

\* the getter
FaderGet ==
    /\ pc = "idle"
    /\ got' = <<fader>>
    /\ UNCHANGED <<inport, outport, callback, fader, lit, trace, pc, cur,
                   cb, hooks, wrote, nops, nmsgs, query, answer>>

----------------------------------------------------------------------------
(* open().                                                                 *)

\* 'presonus fp2'
PortPrefix == <<"p", "r", "e", "s", "o", "n", "u", "s", " ", "f", "p", "2">>

\* port names the transport may list
FirstFP == <<"P", "r", "e", "S", "o", "n", "u", "s", " ", "F", "P", "2">>

SecondFP == <<"P", "R", "E", "S", "O", "N", "U", "S", " ", "F", "P", "2", " ", "2">>

OtherPort == <<"M", "i", "d", "i", " ", "T", "h", "r", "o", "u", "g", "h">>

\* None, where a port name is expected
NoneName == <<"None">>

\* the port mido opens when it is given no name
DefaultName == <<"default">>

\* what mido.get_input_names() and mido.get_output_names() may return
PortLists == { <<>>, <<OtherPort, FirstFP>>, <<FirstFP, OtherPort, SecondFP>> }

\* the device ordinals a caller passes
Ordinals == {0 - 1, 0, 1}

StartsWith(s, prefix) ==
    Len(s) >= Len(prefix) /\ SubSeq(s, 1, Len(prefix)) = prefix

IsFaderPort(i) == StartsWith(StrLower(i), PortPrefix)

\* [i for i in names if i.lower().startswith('presonus fp2')]
Matching(names) == SelectSeq(names, IsFaderPort)

find_faderport_input_name(names, number) ==
    IF 0 <= number /\ number < Len(Matching(names))
    THEN Matching(names)[number + 1]
    ELSE NoneName

find_faderport_output_name(names, number) ==
    IF 0 <= number /\ number < Len(Matching(names))
    THEN Matching(names)[number + 1]
    ELSE NoneName

\* mido.open_input(name), mido.open_output(name): a named port opens; given None the
\* transport opens its default port when it has one (dflt) and raises when it has none
OpenedName(name, dflt) ==
    IF name # NoneName THEN name ELSE IF dflt THEN DefaultName ELSE NoneName

\* open(), up to the settle delay: both ports
OpenPorts(number, innames, outnames, dflt) ==
    /\ pc = "idle"
    /\ nops < MaxOps
    /\ inport = "None"
    /\ outport = "None"
    /\ nops' = nops + 1
    /\ LET iname == OpenedName(find_faderport_input_name(innames, number), dflt)
           oname == OpenedName(find_faderport_output_name(outnames, number), dflt)
           frame == [NoOp EXCEPT !.op = "open", !.pre = lit, !.number = number,
                                 !.nin = Len(Matching(innames)),
                                 !.nout = Len(Matching(outnames))]
       IN  IF iname = NoneName
           THEN /\ UNCHANGED <<inport, outport>>
                /\ trace' = <<>>
                /\ cur' = [frame EXCEPT !.raised = "IOError"]
                /\ pc' = "idle"
           ELSE IF oname = NoneName
           THEN /\ inport' = "open"
                /\ UNCHANGED outport
                /\ trace' = <<Mark("open_input")>>
                /\ cur' = [frame EXCEPT !.raised = "IOError", !.iname = iname]
                /\ pc' = "idle"
           ELSE /\ inport' = "open"
                /\ outport' = "open"
                /\ trace' = <<Mark("open_input"), Mark("open_output"), Sleep(10)>>
                /\ cur' = [frame EXCEPT !.iname = iname, !.oname = oname]
                /\ pc' = "open_register"
    /\ UNCHANGED <<callback, fader, lit, cb, hooks, wrote, got, nmsgs, query, answer>>

\* self.inport.callback = self._message_callback
OpenRegister ==
    /\ pc = "open_register"
    /\ callback' = TRUE
    /\ trace' = Append(trace, Mark("callback=_message_callback"))
    /\ pc' = "open_hook"
    /\ UNCHANGED <<inport, outport, fader, lit, cur, cb, hooks, wrote,
                   got, nops, nmsgs, query, answer>>

\* an inbound message: its type and the attributes the callback reads
NoMsg == [type |-> "none", pitch |-> 0, note |-> 0, velocity |-> 0, control |-> 0, value |-> 0]

\* a hook's invocation: the hook, its arguments (a control's code, a pitch or a
\* direction in a, a state in s), and the inbound message it was invoked for: the
\* message and its ordinal among the messages delivered (NoMsg and 0 for on_open and
\* on_close, which the caller's context invokes)
EventHook(h, a, s, msg, ord) == [h |-> h, a |-> a, s |-> s, of |-> msg, ord |-> ord]

Hook(h, a, s) == EventHook(h, a, s, NoMsg, 0)

\* self.on_open()
OpenHook ==
    /\ pc = "open_hook"
    /\ hooks' = Append(hooks, Hook("on_open", 0, FALSE))
    /\ trace' = Append(trace, Mark("on_open"))
    /\ pc' = "idle"
    /\ UNCHANGED <<inport, outport, callback, fader, lit, cur, cb, wrote,
                   got, nops, nmsgs, query, answer>>

----------------------------------------------------------------------------
(* close(): one step per statement.                                        *)

\* self.on_close(): the hook is the subclass's and may raise (fails)
CloseHook(fails) ==
    /\ pc = "idle"
    /\ nops < MaxOps
    /\ inport = "open"
    /\ outport = "open"
    /\ callback
    /\ nops' = nops + 1
    /\ hooks' = Append(hooks, Hook("on_close", 0, FALSE))
    /\ trace' = <<Mark("on_close")>>
    /\ cur' = [NoOp EXCEPT !.op = "close", !.pre = lit,
                           !.raised = IF fails THEN "HookError" ELSE "none"]
    /\ pc' = IF fails THEN "idle" ELSE "close_unregister"
    /\ UNCHANGED <<inport, outport, callback, fader, lit, cb, wrote,
                   got, nmsgs, query, answer>>

\* self.inport.callback = None
CloseUnregister ==
    /\ pc = "close_unregister"
    /\ callback' = FALSE
    /\ trace' = Append(trace, Mark("callback=None"))
    /\ pc' = "close_fader"
    /\ UNCHANGED <<inport, outport, fader, lit, cur, cb, hooks, wrote,
                   got, nops, nmsgs, query, answer>>

\* self.fader = -8192: the setter's two statements
CloseFaderAssign ==
    /\ pc = "close_fader"
    /\ FaderAssign(0 - 8192)
    /\ pc' = "close_fader_send"
    /\ UNCHANGED <<inport, outport, callback, lit, trace, cur, cb, hooks,
                   nops, nmsgs, query, answer>>

CloseFaderSend ==
    /\ pc = "close_fader_send"
    /\ CallerPhase(fader_send, cur, "close_all_off")
    /\ UNCHANGED nops
    /\ UNCHANGED callerFrame

\* self.all_off()
CloseAllOff ==
    /\ pc = "close_all_off"
    /\ CallerPhase(all_off, cur, "close_reset")
    /\ UNCHANGED nops
    /\ UNCHANGED callerFrame

\* self.outport.reset()
CloseReset ==
    /\ pc = "close_reset"
    /\ trace' = Append(trace, Mark("outport.reset"))
    /\ pc' = "close_ports"
    /\ UNCHANGED <<inport, outport, callback, fader, lit, cur, cb, hooks,
                   wrote, got, nops, nmsgs, query, answer>>

\* self.inport.close(); self.outport.close()
ClosePorts ==
    /\ pc = "close_ports"
    /\ inport' = "closed"
    /\ outport' = "closed"
    /\ trace' = trace \o <<Mark("inport.close"), Mark("outport.close")>>
    /\ pc' = "idle"
    /\ UNCHANGED <<callback, fader, lit, cur, cb, hooks, wrote, got,
                   nops, nmsgs, query, answer>>

----------------------------------------------------------------------------
(* The transport's context: _message_callback.                             *)

\* a pitchwheel message as the transport decodes it from its two 7-bit data bytes
PitchwheelMsg(lsb, msb) ==
    [NoMsg EXCEPT !.type = "pitchwheel", !.pitch = lsb + msb * 128 + MIN_PITCHWHEEL]

NoteOnMsg(note, velocity) ==
    [NoMsg EXCEPT !.type = "note_on", !.note = note, !.velocity = velocity]

ControlChangeMsg(control, value) ==
    [NoMsg EXCEPT !.type = "control_change", !.control = control, !.value = value]

\* a message of a type the callback has no branch for
OtherMsg(type) == [NoMsg EXCEPT !.type = type]

\* the callback's frame: where it is, the message it was called with (at "idle" the
\* one it last returned from) and the diagnostic it printed for it
CbIdle == [pc |-> "idle", msg |-> NoMsg, diag |-> "none"]

\* the transport calls _message_callback(msg), one message at a time
CbEnter(msg) ==
    /\ callback
    /\ inport = "open"
    /\ cb.pc = "idle"
    /\ nmsgs' = nmsgs + 1
    /\ cb' = [pc |-> "dispatch", msg |-> msg, diag |-> "none"]
    /\ UNCHANGED <<inport, outport, callback, fader, lit, trace, pc, cur,
                   hooks, wrote, got, nops, query, answer>>

PressedAtFull(velocity) == velocity = 127

\* msg.velocity != 0: the state a note-on carries
Pressed(velocity) == velocity # 0

IsAnyControl(msg) == msg.type = "control_change"

\* msg.type == 'control_change' and msg.control == 16
IsKnob(msg) == msg.type = "control_change" /\ msg.control = 16

DirectionFromHalf(value) == IF value >= 64 THEN 0 - 1 ELSE 1

\* -1 if msg.value > 64 else 1
Direction(value) == IF value > 64 THEN 0 - 1 ELSE 1

\* the callback's branch for msg: the cache update of a pitchwheel, the hook of a
\* note or of the knob, the diagnostic of anything else
CbDispatch ==
    /\ cb.pc = "dispatch"
    /\ LET msg == cb.msg
       IN  IF msg.type = "pitchwheel"
           THEN /\ fader' = msg.pitch
                /\ wrote' = <<>>
                /\ got' = <<>>
                /\ cb' = [cb EXCEPT !.pc = "on_fader"]
                /\ UNCHANGED hooks
           ELSE /\ UNCHANGED <<fader, wrote, got>>
                /\ IF msg.type = "note_on"
                   THEN IF msg.note = 104
                        THEN /\ hooks' = Append(hooks,
                                     EventHook("on_fader_touch", 0, Pressed(msg.velocity),
                                               msg, nmsgs))
                             /\ cb' = [cb EXCEPT !.pc = "idle"]
                        ELSE IF button_from_press(msg.note).value # NoButton
                        THEN /\ hooks' = Append(hooks,
                                     EventHook("on_button",
                                               button_from_press(msg.note).value.press,
                                               Pressed(msg.velocity), msg, nmsgs))
                             /\ cb' = [cb EXCEPT !.pc = "idle"]
                        ELSE /\ UNCHANGED hooks
                             /\ cb' = [cb EXCEPT !.pc = "idle", !.diag = "Button not found"]
                   ELSE IF IsKnob(msg)
                   THEN /\ hooks' = Append(hooks,
                                EventHook("on_rotary", Direction(msg.value), FALSE,
                                          msg, nmsgs))
                        /\ cb' = [cb EXCEPT !.pc = "idle"]
                   ELSE /\ UNCHANGED hooks
                        /\ cb' = [cb EXCEPT !.pc = "idle", !.diag = "Unhandled"]
    /\ UNCHANGED <<inport, outport, callback, lit, trace, pc, cur, nops,
                   nmsgs, query, answer>>

\* self.on_fader(self._fader): the hook gets the cache as it is now
CbOnFader ==
    /\ cb.pc = "on_fader"
    /\ hooks' = Append(hooks, EventHook("on_fader", fader, FALSE, cb.msg, nmsgs))
    /\ cb' = [cb EXCEPT !.pc = "idle"]
    /\ UNCHANGED <<inport, outport, callback, fader, lit, trace, pc, cur,
                   wrote, got, nops, nmsgs, query, answer>>

----------------------------------------------------------------------------
(* Registry lookups, as a caller makes them.                               *)

LookupName(name) ==
    /\ query' = [by |-> "name", name |-> name, code |-> 0]
    /\ answer' = button_from_name(name)
    /\ UNCHANGED <<inport, outport, callback, fader, lit, trace, pc, cur,
                   cb, hooks, wrote, got, nops, nmsgs>>

LookupPress(press) ==
    /\ query' = [by |-> "press", name |-> <<>>, code |-> press]
    /\ answer' = button_from_press(press)
    /\ UNCHANGED <<inport, outport, callback, fader, lit, trace, pc, cur,
                   cb, hooks, wrote, got, nops, nmsgs>>

----------------------------------------------------------------------------
(* The session: a controller from its construction on.                     *)

Init ==
    /\ inport = "None"
    /\ outport = "None"
    /\ callback = FALSE
    /\ fader = 0 - 8192
    /\ lit = {}
    /\ trace = <<>>
    /\ pc = "idle"
    /\ cur = NoOp
    /\ cb = CbIdle
    /\ hooks = <<>>
    /\ wrote = <<>>
    /\ got = <<>>
    /\ nops = 0
    /\ nmsgs = 0
    /\ query = [by |-> "none", name |-> <<>>, code |-> 0]
    /\ answer = Returned(NoButton)

\* what the session's callers pass
FaderValues == {0 - 9000, 4095, 9000}

SessionChars == {<<"A">>}

SessionButtons == {BUTTONS[2]}

\* what the device sends
SessionMsgs == {PitchwheelMsg(0, 64), PitchwheelMsg(127, 127), NoteOnMsg(16, 127)}

Next ==
    \/ \E number \in Ordinals, innames \in PortLists, outnames \in PortLists,
          dflt \in BOOLEAN : OpenPorts(number, innames, outnames, dflt)
    \/ OpenRegister
    \/ OpenHook
    \/ \E fails \in BOOLEAN : CloseHook(fails)
    \/ CloseUnregister
    \/ CloseFaderAssign
    \/ CloseFaderSend
    \/ CloseAllOff
    \/ CloseReset
    \/ ClosePorts
    \/ \E value \in FaderValues : FaderSet(value)
    \/ FaderSend
    \/ FaderGet
    \/ \E msg \in SessionMsgs : nmsgs < MaxMsgs /\ CbEnter(msg)
    \/ CbDispatch
    \/ CbOnFader
    \/ \E b \in SessionButtons : LightOn(b)
    \/ AllOn
    \/ \E c \in SessionChars : CharOn(c)
    \/ Snake(30)
    \/ Blink(30, 1)

Spec == Init /\ [][Next]_vars

----------------------------------------------------------------------------
(* The lighting routines on an open controller, with nothing inbound.      *)

\* what the callers of the lighting routines pass
Durations == {0 - 30, 0, 30}

BlinkCounts == (0 - 1)..MaxBlinks

NumLightsValues == 0..5

TickCounts == {0 - 1, 0, 1, 2, MaxTicks}

LightButtons == {BUTTONS[1], BUTTONS[13], BUTTONS[26]}

HexChars ==
    {<<"0">>, <<"1">>, <<"2">>, <<"3">>, <<"4">>, <<"5">>, <<"6">>, <<"7">>, <<"8">>,
     <<"9">>, <<"A">>, <<"B">>, <<"C">>, <<"D">>, <<"E">>, <<"F">>,
     <<"a">>, <<"b">>, <<"c">>, <<"d">>, <<"e">>, <<"f">>}

Chars == HexChars \cup {<<"G">>, <<"g">>, <<"x">>, <<" ">>, <<>>, <<"A", "B">>, <<"1", "0">>}

NextLights ==
    \/ OpenPorts(0, <<FirstFP>>, <<FirstFP>>, FALSE)
    \/ OpenRegister
    \/ OpenHook
    \/ \E b \in LightButtons : LightOn(b)
    \/ \E b \in LightButtons : LightOff(b)
    \/ AllOn
    \/ AllOff
    \/ \E c \in Chars : CharOn(c)
    \/ \E duration \in Durations : Snake(duration)
    \/ \E interval \in Durations, n \in BlinkCounts : Blink(interval, n)
    \/ \E interval \in Durations : Countdown(interval)
    \/ CountdownLight
    \/ CountdownClear
    \/ \E duration \in Durations, num_lights \in NumLightsValues, ticks \in TickCounts :
          Chase(duration, num_lights, ticks)
    \/ ChaseLight
    \/ ChaseClear

SpecLights == Init /\ [][NextLights]_vars

----------------------------------------------------------------------------
(* The inbound side on an open controller: every kind of message the       *)
(* callback tells apart, against a caller that writes the fader or closes. *)

\* data bytes at the edges and around the knob's threshold of 64
DataBytes == {0, 1, 63, 64, 65, 127}

\* the fader's touch note, press codes of buttons (the lowest and highest among them),
\* and notes of no control
InboundNotes == {104, 16, 0, 102, 103, 50, 127}

\* a release, and presses from the softest to the hardest
Velocities == {0, 1, 64, 127}

InboundMsgs ==
    {PitchwheelMsg(lsb, msb) : lsb \in {0, 127}, msb \in {0, 64, 127}}
    \cup {NoteOnMsg(note, velocity) : note \in InboundNotes, velocity \in Velocities}
    \cup {ControlChangeMsg(control, value) : control \in {16, 17}, value \in DataBytes}
    \cup {OtherMsg("sysex"), OtherMsg("note_off")}

\* what the device sends after its first message
LaterMsgs ==
    {PitchwheelMsg(127, 127), NoteOnMsg(16, 127), NoteOnMsg(50, 127), ControlChangeMsg(16, 65)}

NextInbound ==
    \/ OpenPorts(0, <<FirstFP>>, <<FirstFP>>, FALSE)
    \/ OpenRegister
    \/ OpenHook
    \/ \E msg \in (IF nmsgs = 0 THEN InboundMsgs ELSE LaterMsgs) :
          nmsgs < MaxInbound /\ CbEnter(msg)
    \/ CbDispatch
    \/ CbOnFader
    \/ \E value \in FaderValues : FaderSet(value)
    \/ FaderSend
    \/ FaderGet
    \/ CloseHook(FALSE)
    \/ CloseUnregister
    \/ CloseFaderAssign
    \/ CloseFaderSend
    \/ CloseAllOff
    \/ CloseReset
    \/ ClosePorts

SpecInbound == Init /\ [][NextInbound]_vars

----------------------------------------------------------------------------
(* The registry's lookups on their own.                                    *)

\* every way to write s in upper and lower case
CaseVariants(s) ==
    {[i \in 1..Len(s) |-> IF i \in U THEN ChUpper(s[i]) ELSE ChLower(s[i])] :
        U \in SUBSET (1..Len(s))}

\* names of no control
UnknownNames ==
    { <<>>, <<"O", "f", "f">>, <<"R", "e", "c">>, <<"R", "e", "c", " ", "A", "r", "m">>,
      <<"M", "u", "t">>, <<"M", "u", "t", "e", "s">>, <<"M", "u", "t", "e", " ">>,
      <<"S", "o", "-", "l", "o">>, <<"1", "S", "o", "l", "o">> }

NameInputs ==
    UNION {CaseVariants(BUTTONS[i].name) : i \in DOMAIN BUTTONS}
    \cup UNION {CaseVariants(u) : u \in UnknownNames}

PressInputs == (0 - 1)..128

\* one lookup on the tables as the module builds them
NextRegistry ==
    \/ query.by = "none" /\ \E name \in NameInputs : LookupName(name)
    \/ query.by = "none" /\ \E press \in PressInputs : LookupPress(press)

SpecRegistry == Init /\ [][NextRegistry]_vars

----------------------------------------------------------------------------
(* The registry's contract.                                                *)

SameIgnoringCase(a, b) ==
    /\ Len(a) = Len(b)
    /\ \A k \in 1..Len(a) : ChLower(a[k]) = ChLower(b[k])

\* C8: the lookups are a round trip over the 26 controls: a lookup by a control's
\* code returns that control, a lookup by its name in any letter case returns
\* that control, and codes and names are pairwise distinct.
C8_RoundTrip ==
    /\ Len(BUTTONS) = 26
    /\ \A i, j \in DOMAIN BUTTONS :
          i # j => /\ BUTTONS[i].press # BUTTONS[j].press
                   /\ BUTTONS[i].name # BUTTONS[j].name
    /\ \A i \in DOMAIN BUTTONS :
          /\ (query.by = "press" /\ query.code = BUTTONS[i].press)
                => answer = Returned(BUTTONS[i])
          /\ (query.by = "name" /\ SameIgnoringCase(query.name, BUTTONS[i].name))
                => answer = Returned(BUTTONS[i])

C8_Witness ==
    /\ query.by = "name"
    /\ query.name = <<"M", "U", "T", "E">>
    /\ answer = Returned(BUTTONS[2])

\* C9: a lookup by a code of no control returns None and a lookup by code never
\* raises, while a lookup by a name that matches no control in any letter case
\* raises KeyError.
C9_LookupFailure ==
    /\ query.by = "press" =>
          /\ answer.raised = "none"
          /\ (\A i \in DOMAIN BUTTONS : BUTTONS[i].press # query.code)
                => answer.value = NoButton
    /\ (/\ query.by = "name"
        /\ \A i \in DOMAIN BUTTONS : ~SameIgnoringCase(query.name, BUTTONS[i].name))
          => answer = Raised("KeyError")

C9_Witness ==
    /\ query.by = "name"
    /\ query.name = <<"o", "F", "F">>
    /\ answer = Raised("KeyError")

----------------------------------------------------------------------------
(* The controller's contract.                                              *)

Max(a, b) == IF a >= b THEN a ELSE b

Min(a, b) == IF a <= b THEN a ELSE b

\* an operation of the caller has ended: it returned or it raised
Ended(op) == pc = "idle" /\ cur.op = op

C2_CloseAlwaysTearsDown ==
    Ended("close") =>
        /\ lit = {}
        /\ \A i \in DOMAIN BUTTONS :
              \E k \in DOMAIN trace : trace[k] = NoteOn(BUTTONS[i].press, 0)
        /\ fader = 0 - 8192
        /\ ~callback
        /\ inport = "closed"
        /\ outport = "closed"

\* C3: when fewer than number + 1 port names match, open(number) fails at once:
\* it raises, no port is opened, no callback is registered and on_open is not called.
C3_OpenFailsWithoutDevice ==
    (/\ cur.op = "open"
     /\ 0 <= cur.number
     /\ (cur.nin < cur.number + 1 \/ cur.nout < cur.number + 1))
        => /\ pc = "idle"
           /\ cur.raised # "none"
           /\ inport = "None"
           /\ outport = "None"
           /\ ~callback
           /\ \A k \in DOMAIN hooks : hooks[k].h # "on_open"

CloseSteps ==
       <<Mark("on_close"), Mark("callback=None"), Pitchwheel(0 - 8192)>>
    \o [i \in 1..Len(BUTTONS) |-> NoteOn(BUTTONS[i].press, 0)]
    \o <<Mark("outport.reset"), Mark("inport.close"), Mark("outport.close")>>

IsPrefix(s, t) == Len(s) <= Len(t) /\ s = SubSeq(t, 1, Len(s))

\* C5: close() calls on_close first, with the callback still registered and both
\* ports open, then unregisters the callback, then sets the fader to -8192 and sends
\* one pitchwheel with -8192, then a light-off for every control, then resets the
\* output port, then closes both ports; nothing is sent on a closed output port.
C5_CloseOrder ==
    /\ cur.op = "close" =>
          /\ IsPrefix(trace, CloseSteps)
          /\ (pc = "idle" /\ cur.raised = "none") => trace = CloseSteps
          /\ Len(trace) = 1 => (callback /\ inport = "open" /\ outport = "open")
    /\ (cur.op # "close" /\ outport = "closed") =>
          \A k \in DOMAIN trace : ~IsSend(trace[k])

----------------------------------------------------------------------------
(* The lighting routines' contract.                                        *)

C7_ChaseMidTick ==
    (pc = "chase_hold" /\ cur.num_lights \in 1..4) => Cardinality(lit) = cur.num_lights

\* C7, amended: the same in every tick after the first, and in the first tick
\* too when no light is on at the call.
C7_ChaseMidTickAmended ==
    (/\ pc = "chase_hold"
     /\ cur.num_lights \in 1..4
     /\ (cur.x >= 1 \/ cur.pre = {}))
        => Cardinality(lit) = cur.num_lights

C7_Witness ==
    /\ pc = "chase_hold"
    /\ cur.num_lights = 3
    /\ cur.pre # {}
    /\ cur.x = 12
    /\ Cardinality(lit) = 3

\* the notes of the controls at the positions the glyph table gives for key
GlyphNotes(key) ==
    {BUTTONS[CHARACTERS[key][k] + 1].press : k \in 1..Len(CHARACTERS[key])}

\* C10: char_on(c) for a hex character c of either case, called with every light
\* off, leaves lit exactly the controls at the glyph's positions, and every
\* position of the glyph table is one of the 26 controls.
C10_CharOnExact ==
    /\ \A key \in DOMAIN CHARACTERS :
          \A k \in 1..Len(CHARACTERS[key]) : CHARACTERS[key][k] \in 0..25
    /\ (/\ outport = "open"
        /\ Ended("char_on")
        /\ cur.pre = {}
        /\ cur.c \in HexChars)
          => /\ cur.raised = "none"
             /\ lit = GlyphNotes(StrUpper(cur.c))

C10_Witness ==
    /\ outport = "open"
    /\ Ended("char_on")
    /\ cur.pre = {}
    /\ cur.c = <<"a">>
    /\ lit = {3, 77, 74, 47, 5, 42, 54, 56, 58, 61, 86, 94}

----------------------------------------------------------------------------
(* The inbound side's contract.                                            *)

\* the invocations of hooks for the n-th message delivered
HooksFor(n) == {k \in DOMAIN hooks : hooks[k].ord = n}

\* C11: an inbound pitchwheel message with pitch v sets the cache to v, and the
\* callback returns from it having invoked exactly one hook for it, on_fader with v
\* (the value a read of fader inside the hook returns).
C11_PitchBendHook ==
    /\ (cb.pc = "on_fader" /\ wrote = <<>>) => fader = cb.msg.pitch
    /\ (cb.pc = "idle" /\ cb.msg.type = "pitchwheel") =>
          /\ Cardinality(HooksFor(nmsgs)) = 1
          /\ \A k \in HooksFor(nmsgs) :
                /\ hooks[k].h = "on_fader"
                /\ hooks[k].a = cb.msg.pitch

\* C12: the callback returns from a note-on message having invoked exactly one hook
\* for it: for note 104 on_fader_touch with the state velocity != 0, never on_button;
\* for any other note that is the code of a control, on_button with that control and
\* the state velocity != 0, so that velocity 0 is a release and every other a press.
C12_NoteOnTranslation ==
    (cb.pc = "idle" /\ cb.msg.type = "note_on") =>
        /\ cb.msg.note = 104 =>
              /\ Cardinality(HooksFor(nmsgs)) = 1
              /\ \A k \in HooksFor(nmsgs) :
                    /\ hooks[k].h = "on_fader_touch"
                    /\ hooks[k].s = (cb.msg.velocity # 0)
        /\ \A i \in DOMAIN BUTTONS :
              (cb.msg.note # 104 /\ BUTTONS[i].press = cb.msg.note) =>
                  /\ Cardinality(HooksFor(nmsgs)) = 1
                  /\ \A k \in HooksFor(nmsgs) :
                        /\ hooks[k].h = "on_button"
                        /\ hooks[k].a = BUTTONS[i].press
                        /\ hooks[k].s = (cb.msg.velocity # 0)
                        /\ cb.msg.velocity = 0 => ~hooks[k].s
                        /\ cb.msg.velocity \in 1..127 => hooks[k].s

C12_Witness ==
    /\ cb.pc = "idle"
    /\ cb.msg = NoteOnMsg(16, 1)
    /\ \E k \in HooksFor(nmsgs) :
          hooks[k].h = "on_button" /\ hooks[k].a = BUTTONS[2].press /\ hooks[k].s

\* C13: the callback returns from a control-change message of controller 16 with
\* value x having invoked exactly one hook for it, on_rotary with the direction -1
\* when x > 64 and +1 otherwise (+1 for 64 and for 0): one tick, whatever x.
C13_RotaryDirection ==
    (cb.pc = "idle" /\ cb.msg.type = "control_change" /\ cb.msg.control = 16) =>
        /\ Cardinality(HooksFor(nmsgs)) = 1
        /\ \A k \in HooksFor(nmsgs) :
              /\ hooks[k].h = "on_rotary"
              /\ hooks[k].a = (IF cb.msg.value > 64 THEN 0 - 1 ELSE 1)
              /\ cb.msg.value \in {0, 64} => hooks[k].a = 1
              /\ hooks[k].a \in {0 - 1, 1}

C13_Witness ==
    /\ cb.pc = "idle"
    /\ cb.msg = ControlChangeMsg(16, 64)
    /\ \E k \in HooksFor(nmsgs) : hooks[k].h = "on_rotary" /\ hooks[k].a = 1

\* a message the callback has no hook for
Dropped(msg) ==
    \/ /\ msg.type = "note_on"
       /\ msg.note # 104
       /\ \A i \in DOMAIN BUTTONS : BUTTONS[i].press # msg.note
    \/ msg.type = "control_change" /\ msg.control # 16
    \/ msg.type \notin {"none", "pitchwheel", "note_on", "control_change"}

\* C14: a note-on of a note that is neither 104 nor the code of a control, a
\* control-change of a controller other than 16, and a message of any other type are
\* dropped: the callback returns having printed a diagnostic, with no hook invoked,
\* nothing sent and the cache as it was, the callback still registered; and a message
\* delivered after it gets its hook.
C14_DroppedMessages ==
    /\ [](/\ (cb.pc = "idle" /\ Dropped(cb.msg)) =>
                (HooksFor(nmsgs) = {} /\ cb.diag # "none")
          /\ (cb.pc = "idle" /\ nmsgs >= 2 /\ HooksFor(nmsgs - 1) = {}
                /\ cb.msg.type # "none" /\ ~Dropped(cb.msg)) =>
                Cardinality(HooksFor(nmsgs)) = 1)
    /\ [][(cb.pc = "dispatch" /\ Dropped(cb.msg) /\ cb' # cb) =>
            /\ cb'.pc = "idle"
            /\ UNCHANGED <<hooks, trace, lit, fader, callback, inport, outport>>]_vars

C14_Witness ==
    /\ nmsgs = 2
    /\ HooksFor(1) = {}
    /\ cb.pc = "idle"
    /\ cb.msg = NoteOnMsg(16, 127)
    /\ \E k \in HooksFor(2) : hooks[k].h = "on_button"

\* C15: a write of fader with v, on an open controller, sends exactly one pitchwheel
\* message, with the pitch max(-8192, min(8191, v)), however the write interleaves
\* with the callback's handling of inbound pitchwheel messages.
C15_FaderWriteSendsClamp ==
    (Ended("fader") /\ outport = "open") =>
        trace = <<Pitchwheel(Max(0 - 8192, Min(8191, cur.v)))>>

----------------------------------------------------------------------------
(* The animations' contract.                                               *)

\* C16, as claimed: a chase runs with as many cursors as num_lights clamped into
\* 1..4: 1 for a request below 1, 4 for a request above 4.
C16_ChaseCursorsClamped ==
    cur.op = "chase" => Len(cur.its) = Max(1, Min(4, cur.num_lights))

\* C16, amended: a chase runs with num_lights cursors for a request in 1..4 and
\* with 2 cursors for any other request, below 1 or above 4; started with every
\* light off, it has that many controls lit at each hold.
C16_ChaseCursorsAmended ==
    cur.op = "chase" =>
        /\ cur.num_lights \in 1..4 => Len(cur.its) = cur.num_lights
        /\ cur.num_lights \notin 1..4 => Len(cur.its) = 2
        /\ (pc = "chase_hold" /\ cur.pre = {}) => Cardinality(lit) = Len(cur.its)

C16_Witness ==
    /\ pc = "chase_hold"
    /\ cur.num_lights = 5
    /\ cur.pre = {}
    /\ Len(cur.its) = 2
    /\ Cardinality(lit) = 2

\* the position in the chase sequence (from 0) under cursor i (from 0) of n at step t
ChasePosition(n, t, i) == (t + i * (12 \div n)) % 12

\* the commands of step t of a chase with n cursors: the lights, the hold, the clearing
ChaseStepLights(n, t) ==
    [j \in 1..n |-> NoteOn(seq[ChasePosition(n, t, j - 1) + 1].press, 127)]

ChaseStepClear(d) ==
    <<Sleep(d)>> \o [i \in 1..Len(BUTTONS) |-> NoteOn(BUTTONS[i].press, 0)]

\* the commands of the first T steps
ChaseSteps(n, d, T) ==
    Concat([t \in 1..T |-> ChaseStepLights(n, t - 1) \o ChaseStepClear(d)])

\* C17: a chase with n cursors and ticks = T, with a duration that is not negative,
\* runs T steps (none for T < 1) and returns: step t (from 0) lights the control at
\* position (t + i * (12 div n)) mod 12 of the 12-control sequence for each cursor
\* i in 0..n-1, these positions pairwise distinct, and then sends a light-off for
\* each of the 26 controls before the next step; for T >= 1 it ends with no light on.
C17_ChaseSteps ==
    (cur.op = "chase" /\ outport = "open" /\ cur.d >= 0) =>
        LET n == Len(cur.its)
            T == Max(cur.ticks, 0)
        IN  /\ n \in 1..4
            /\ Len(seq) = 12
            /\ Len(BUTTONS) = 26
            /\ \A t \in 0..MaxTicks : \A i, j \in 0..(n - 1) :
                  i # j => ChasePosition(n, t, i) # ChasePosition(n, t, j)
            /\ pc = "chase_tick" =>
                  /\ cur.x < T
                  /\ trace = ChaseSteps(n, cur.d, cur.x)
            /\ pc = "chase_hold" =>
                  /\ cur.x < T
                  /\ trace = ChaseSteps(n, cur.d, cur.x) \o ChaseStepLights(n, cur.x)
                  /\ cur.x >= 1 =>
                        lit = {seq[ChasePosition(n, cur.x, i) + 1].press : i \in 0..(n - 1)}
            /\ pc = "idle" =>
                  /\ cur.raised = "none"
                  /\ cur.x = T
                  /\ trace = ChaseSteps(n, cur.d, T)
                  /\ T >= 1 => lit = {}

C17_Witness ==
    /\ outport = "open"
    /\ Ended("chase")
    /\ cur.num_lights = 3
    /\ cur.ticks = MaxTicks
    /\ cur.x = MaxTicks
    /\ cur.pre # {}
    /\ cur.raised = "none"
    /\ lit = {}

\* C18: char_on(c) turns no light off: whatever was lit when it is called, the
\* controls lit when it returns are those lit before and those of the glyph of c;
\* for a c that is not one of 0-9, A-F in either case it returns having sent
\* nothing, the lights as they were.
C18_CharOnFrame ==
    (outport = "open" /\ Ended("char_on")) =>
        /\ cur.raised = "none"
        /\ \A k \in DOMAIN trace : trace[k].ev = "note_on" /\ trace[k].b # 0
        /\ cur.c \in HexChars => lit = cur.pre \cup GlyphNotes(StrUpper(cur.c))
        /\ cur.c \notin HexChars => (trace = <<>> /\ lit = cur.pre)

C18_Witness ==
    /\ outport = "open"
    /\ Ended("char_on")
    /\ cur.c = <<"7">>
    /\ cur.pre = {BUTTONS[26].press}
    /\ lit = {BUTTONS[26].press} \cup GlyphNotes(<<"7">>)
    /\ Cardinality(lit) = 8

\* the digits of a countdown, in the order claimed
CountdownDigits == <<"9", "8", "7", "6", "5", "4", "3", "2", "1", "0">>

IsCommand(e) == e.ev = "note_on"

\* the light commands of one digit: its glyph on, ...
DigitLights(c) ==
    [k \in 1..Len(CHARACTERS[<<c>>]) |-> NoteOn(BUTTONS[CHARACTERS[<<c>>][k] + 1].press, 127)]

\* ... then every control off
EveryLightOff == [i \in 1..Len(BUTTONS) |-> NoteOn(BUTTONS[i].press, 0)]

\* the light commands of the first k digits
CountdownSteps(k) ==
    Concat([j \in 1..k |-> DigitLights(CountdownDigits[j]) \o EveryLightOff])

----------------------------------------------------------------------------
(* The hooks' order.                                                       *)

\* the hooks of inbound events
EventHooks == {"on_button", "on_fader", "on_fader_touch", "on_rotary"}

\* C20: on_open is invoked before any hook of an inbound event, however open()
\* interleaves with the delivery of messages; and once close() has unregistered the
\* callback no message is delivered to it, every hook of an inbound event being for
\* a message delivered.
C20_HookOrder ==
    /\ [](\A k \in DOMAIN hooks :
            hooks[k].h \in EventHooks =>
                /\ \E j \in 1..(k - 1) : hooks[j].h = "on_open"
                /\ hooks[k].ord \in 1..nmsgs)
    /\ [][~callback => nmsgs' = nmsgs]_vars

====
